---- MODULE Spec2Model ----
(***************************************************************************)
(* Model of src/arch/src/aarch64/fdt.rs: the generator of the flattened    *)
(* device tree (FDT) of an aarch64 microVM.                                *)
(*                                                                         *)
(* create_fdt is a straight-line program that drives the libfdt            *)
(* sequential-write encoder.  Every encoder call of create_fdt is one step *)
(* of the model.  Rust strings and byte slices are sequences of bytes      *)
(* (0..255), u32 values are naturals, u64 values are four 16-bit limbs,    *)
(* most significant first (the model checker's integers are 32 bits wide). *)
(* A Vec<u8> working buffer is a record holding its length and the libfdt  *)
(* blob that lives in it: the header state, the structure block as a       *)
(* sequence of tokens and the strings block as a sequence of bytes.        *)
(***************************************************************************)
EXTENDS Integers, Sequences, FiniteSets, TLC

\* ------------------------------------------------------------------ bounds
\* Largest number of vCPUs in vcpu_mpidr.
MaxCpus == 2
\* Largest number of entries of the device map.
MaxDevices == 2
\* Largest number of encoder calls of one encoder session (SpecEnc).
MaxOps == 3

\* --------------------------------------------------------------- constants
GIC_PHANDLE == 1
CLOCK_PHANDLE == 2
ADDRESS_CELLS == 2
SIZE_CELLS == 2
GIC_FDT_IRQ_TYPE_SPI == 0
GIC_FDT_IRQ_TYPE_PPI == 1
IRQ_TYPE_EDGE_RISING == 1
IRQ_TYPE_LEVEL_HI == 4
\* layout::FDT_MAX_SIZE, the fixed size of both working buffers (0x20_0000).
FDT_MAX_SIZE == 2097152
\* layout::DRAM_MEM_START (0x8000_0000).
DRAM_MEM_START == <<0, 0, 32768, 0>>

\* libfdt: sizes of the header and of one reserve-map entry, the tokens' size,
\* and the error code of a call that ran out of space.
FDT_V17_SIZE == 40
FDT_RSV_ENTRY_SIZE == 16
FDT_TAGSIZE == 4
FDT_ERR_NOSPACE == 3

\* ------------------------------------------------------------ byte helpers
RECURSIVE Pow2(_)
Pow2(n) == IF n = 0 THEN 1 ELSE 2 * Pow2(n - 1)

\* Bitwise AND of two naturals below 2^w, bit by bit.
RECURSIVE BitAnd(_, _, _)
BitAnd(a, b, w) ==
    IF w = 0 THEN 0
    ELSE (IF a % 2 = 1 /\ b % 2 = 1 THEN 1 ELSE 0)
         + 2 * BitAnd(a \div 2, b \div 2, w - 1)

\* u64 values: limbs[1] holds bits 63..48, limbs[4] bits 15..0.
U64FromNat(n) == <<0, 0, n \div 65536, n % 65536>>

\* a & b on u64.
U64And(a, b) == [i \in 1..4 |-> BitAnd(a[i], b[i], 16)]

\* a.cmp(&b) on u64: -1 (Less), 0 (Equal), 1 (Greater).
U64Cmp(a, b) ==
    IF \A i \in 1..4 : a[i] = b[i] THEN 0
    ELSE LET k == CHOOSE i \in 1..4 :
                      a[i] # b[i] /\ \A j \in 1..(i - 1) : a[j] = b[j]
         IN IF a[k] < b[k] THEN -1 ELSE 1

\* a - b on u64, wrapping at 2^64.
RECURSIVE SubLimbs(_, _, _, _)
SubLimbs(a, b, i, borrow) ==
    IF i = 0 THEN <<>>
    ELSE LET d == a[i] - b[i] - borrow
         IN SubLimbs(a, b, i - 1, IF d < 0 THEN 1 ELSE 0)
              \o <<IF d < 0 THEN d + 65536 ELSE d>>
U64Sub(a, b) == SubLimbs(a, b, 4, 0)

Align4(n) == ((n + 3) \div 4) * 4

\* s is a prefix of t.
IsPrefix(s, t) == Len(s) <= Len(t) /\ SubSeq(t, 1, Len(s)) = s

\* ---------------------------------------------------------- string literals
\* ""
s_empty == <<>>
\* "compatible"
s_compatible == <<99, 111, 109, 112, 97, 116, 105, 98, 108, 101>>
\* "linux,dummy-virt"
s_linux_dummy_virt ==
    <<108, 105, 110, 117, 120, 44, 100, 117, 109, 109, 121, 45, 118, 105,
      114, 116>>
\* "#address-cells"
s_address_cells == <<35, 97, 100, 100, 114, 101, 115, 115, 45, 99, 101, 108, 108, 115>>
\* "#size-cells"
s_size_cells == <<35, 115, 105, 122, 101, 45, 99, 101, 108, 108, 115>>
\* "interrupt-parent"
s_interrupt_parent ==
    <<105, 110, 116, 101, 114, 114, 117, 112, 116, 45, 112, 97, 114, 101,
      110, 116>>
\* "cpus"
s_cpus == <<99, 112, 117, 115>>
\* "cpu@"
s_cpu_at == <<99, 112, 117, 64>>
\* "device_type"
s_device_type == <<100, 101, 118, 105, 99, 101, 95, 116, 121, 112, 101>>
\* "cpu"
s_cpu == <<99, 112, 117>>
\* "arm,arm-v8"
s_arm_v8 == <<97, 114, 109, 44, 97, 114, 109, 45, 118, 56>>
\* "enable-method"
s_enable_method == <<101, 110, 97, 98, 108, 101, 45, 109, 101, 116, 104, 111, 100>>
\* "psci"
s_psci == <<112, 115, 99, 105>>
\* "reg"
s_reg == <<114, 101, 103>>
\* "memory"
s_memory == <<109, 101, 109, 111, 114, 121>>
\* "chosen"
s_chosen == <<99, 104, 111, 115, 101, 110>>
\* "bootargs"
s_bootargs == <<98, 111, 111, 116, 97, 114, 103, 115>>
\* "intc"
s_intc == <<105, 110, 116, 99>>
\* "interrupt-controller"
s_interrupt_controller ==
    <<105, 110, 116, 101, 114, 114, 117, 112, 116, 45, 99, 111, 110, 116,
      114, 111, 108, 108, 101, 114>>
\* "#interrupt-cells"
s_interrupt_cells ==
    <<35, 105, 110, 116, 101, 114, 114, 117, 112, 116, 45, 99, 101, 108, 108,
      115>>
\* "phandle"
s_phandle == <<112, 104, 97, 110, 100, 108, 101>>
\* "ranges"
s_ranges == <<114, 97, 110, 103, 101, 115>>
\* "interrupts"
s_interrupts == <<105, 110, 116, 101, 114, 114, 117, 112, 116, 115>>
\* "apb-pclk"
s_apb_pclk_node == <<97, 112, 98, 45, 112, 99, 108, 107>>
\* "fixed-clock"
s_fixed_clock == <<102, 105, 120, 101, 100, 45, 99, 108, 111, 99, 107>>
\* "#clock-cells"
s_clock_cells == <<35, 99, 108, 111, 99, 107, 45, 99, 101, 108, 108, 115>>
\* "clock-frequency"
s_clock_frequency ==
    <<99, 108, 111, 99, 107, 45, 102, 114, 101, 113, 117, 101, 110, 99, 121>>
\* "clock-output-names"
s_clock_output_names ==
    <<99, 108, 111, 99, 107, 45, 111, 117, 116, 112, 117, 116, 45, 110, 97,
      109, 101, 115>>
\* "clk24mhz"
s_clk24mhz == <<99, 108, 107, 50, 52, 109, 104, 122>>
\* "arm,armv8-timer"
s_armv8_timer == <<97, 114, 109, 44, 97, 114, 109, 118, 56, 45, 116, 105, 109, 101, 114>>
\* "timer"
s_timer == <<116, 105, 109, 101, 114>>
\* "always-on"
s_always_on == <<97, 108, 119, 97, 121, 115, 45, 111, 110>>
\* "arm,psci-0.2"
s_psci_0_2 == <<97, 114, 109, 44, 112, 115, 99, 105, 45, 48, 46, 50>>
\* "method"
s_method == <<109, 101, 116, 104, 111, 100>>
\* "hvc"
s_hvc == <<104, 118, 99>>
\* "virtio_mmio@"
s_virtio_mmio_at == <<118, 105, 114, 116, 105, 111, 95, 109, 109, 105, 111, 64>>
\* "virtio,mmio"
s_virtio_mmio == <<118, 105, 114, 116, 105, 111, 44, 109, 109, 105, 111>>
\* "uart@"
s_uart_at == <<117, 97, 114, 116, 64>>
\* "ns16550a"
s_ns16550a == <<110, 115, 49, 54, 53, 53, 48, 97>>
\* "clocks"
s_clocks == <<99, 108, 111, 99, 107, 115>>
\* "clock-names"
s_clock_names == <<99, 108, 111, 99, 107, 45, 110, 97, 109, 101, 115>>
\* "apb_pclk"
s_apb_pclk == <<97, 112, 98, 95, 112, 99, 108, 107>>
\* "rtc@"
s_rtc_at == <<114, 116, 99, 64>>
\* "arm,pl031\0arm,primecell\0"
b_rtc_compatible ==
    <<97, 114, 109, 44, 112, 108, 48, 51, 49, 0, 97, 114, 109, 44, 112, 114,
      105, 109, 101, 99, 101, 108, 108, 0>>
\* "console=tty0"
s_console_tty0 == <<99, 111, 110, 115, 111, 108, 101, 61, 116, 116, 121, 48>>
\* "arm,gic-v3"
s_gic_v3 == <<97, 114, 109, 44, 103, 105, 99, 45, 118, 51>>
\* "arm,gic-400"
s_gic_400 == <<97, 114, 109, 44, 103, 105, 99, 45, 52, 48, 48>>

\* -------------------------------------------------------------- conversions
\* u32::to_be_bytes
to_be32(input) ==
    <<(input \div 16777216) % 256, (input \div 65536) % 256,
      (input \div 256) % 256, input % 256>>

\* u64::to_be_bytes
to_be64(input) ==
    <<input[1] \div 256, input[1] % 256, input[2] \div 256, input[2] % 256,
      input[3] \div 256, input[3] % 256, input[4] \div 256, input[4] % 256>>

RECURSIVE generate_prop32(_)
generate_prop32(cells) ==
    IF cells = <<>> THEN <<>>
    ELSE to_be32(Head(cells)) \o generate_prop32(Tail(cells))

RECURSIVE generate_prop64(_)
generate_prop64(cells) ==
    IF cells = <<>> THEN <<>>
    ELSE to_be64(Head(cells)) \o generate_prop64(Tail(cells))

\* The ASCII code of one lower-case hexadecimal digit.
HexDigit(d) == IF d < 10 THEN 48 + d ELSE 87 + d

\* The sixteen hexadecimal digits of a u64, most significant first.
Nibbles(v) ==
    [i \in 1..16 |->
        LET limb == v[((i - 1) \div 4) + 1]
        IN (limb \div Pow2(4 * (3 - ((i - 1) % 4)))) % 16]

\* format!("{:x}", v): lower-case hexadecimal without leading zeros.
fmt_x(v) ==
    LET n == Nibbles(v)
        nz == {i \in 1..16 : n[i] # 0}
        first == IF nz = {} THEN 16
                 ELSE CHOOSE i \in nz : \A j \in nz : i <= j
    IN [i \in 1..(17 - first) |-> HexDigit(n[first + i - 1])]

\* CString::new(s): fails with NulError when s holds a 0 byte, and otherwise
\* yields the bytes of s followed by the terminating 0.
CString_new(s) ==
    IF \E i \in 1..Len(s) : s[i] = 0
    THEN [ok |-> FALSE, bytes |-> <<>>]
    ELSE [ok |-> TRUE, bytes |-> s \o <<0>>]

\* ------------------------------------------------------------------- libfdt
\* strlen of a 0-terminated byte string.
strlen(cstr) == (CHOOSE i \in 1..Len(cstr) :
                    cstr[i] = 0 /\ \A j \in 1..(i - 1) : cstr[j] # 0) - 1

\* A freshly allocated vec![0; FDT_MAX_SIZE].
ZeroedVec ==
    [len |-> FDT_MAX_SIZE, magic |-> "zero", totalsize |-> 0,
     off_dt_struct |-> 0, size_dt_struct |-> 0,
     struct |-> <<>>, strings |-> <<>>]

\* The space fdt_grab_space_ hands out: the new blob, or FALSE in ok when the
\* structure block would run into the strings block.
fdt_grab_space(fdt, len, token) ==
    LET spaceleft == fdt.totalsize - fdt.off_dt_struct - Len(fdt.strings)
    IN IF fdt.size_dt_struct + len > spaceleft
       THEN [ok |-> FALSE, fdt |-> fdt]
       ELSE [ok |-> TRUE,
             fdt |-> [fdt EXCEPT !.size_dt_struct = @ + len,
                                 !.struct = Append(@, token)]]

\* fdt_find_string_: the 0-terminated string s occurs in the strings block.
fdt_find_string(strtab, s) ==
    \E p \in 1..(Len(strtab) - Len(s) + 1) :
        SubSeq(strtab, p, p + Len(s) - 1) = s

\* fdt_find_add_string_: the strings block after the name has been looked up
\* and, when absent, added in front of it (the block grows downwards from
\* the end of the buffer); ok is FALSE when there is no room.
fdt_find_add_string(fdt, cstr) ==
    IF fdt_find_string(fdt.strings, cstr) THEN [ok |-> TRUE, fdt |-> fdt]
    ELSE IF fdt.totalsize - Len(fdt.strings) - Len(cstr)
               < fdt.off_dt_struct + fdt.size_dt_struct
         THEN [ok |-> FALSE, fdt |-> fdt]
         ELSE [ok |-> TRUE, fdt |-> [fdt EXCEPT !.strings = cstr \o @]]

\* Every libfdt call below takes fault: TRUE when the library reports an
\* error of its own accord; the buffer is then left as it was.
fdt_create(buf, bufsize, fault) ==
    IF fault \/ bufsize < FDT_V17_SIZE
    THEN [ret |-> -FDT_ERR_NOSPACE, fdt |-> buf]
    ELSE [ret |-> 0,
          fdt |-> [buf EXCEPT !.magic = "FDT_SW_MAGIC",
                              !.totalsize = bufsize,
                              !.off_dt_struct = FDT_V17_SIZE,
                              !.size_dt_struct = 0,
                              !.struct = <<>>, !.strings = <<>>]]

fdt_finish_reservemap(fdt, fault) ==
    IF fault \/ fdt.magic # "FDT_SW_MAGIC" \/ fdt.size_dt_struct # 0
       \/ fdt.off_dt_struct + FDT_RSV_ENTRY_SIZE > fdt.totalsize
    THEN [ret |-> -FDT_ERR_NOSPACE, fdt |-> fdt]
    ELSE [ret |-> 0,
          fdt |-> [fdt EXCEPT !.off_dt_struct = @ + FDT_RSV_ENTRY_SIZE]]

fdt_begin_node(fdt, name, fault) ==
    LET g == fdt_grab_space(fdt, FDT_TAGSIZE + Align4(strlen(name) + 1),
                            [tok |-> "FDT_BEGIN_NODE",
                             name |-> SubSeq(name, 1, strlen(name))])
    IN IF fault \/ fdt.magic # "FDT_SW_MAGIC" \/ ~g.ok
       THEN [ret |-> -FDT_ERR_NOSPACE, fdt |-> fdt]
       ELSE [ret |-> 0, fdt |-> g.fdt]

fdt_end_node(fdt, fault) ==
    LET g == fdt_grab_space(fdt, FDT_TAGSIZE, [tok |-> "FDT_END_NODE"])
    IN IF fault \/ fdt.magic # "FDT_SW_MAGIC" \/ ~g.ok
       THEN [ret |-> -FDT_ERR_NOSPACE, fdt |-> fdt]
       ELSE [ret |-> 0, fdt |-> g.fdt]

fdt_property(fdt, name, val, len, fault) ==
    IF fault \/ fdt.magic # "FDT_SW_MAGIC"
    THEN [ret |-> -FDT_ERR_NOSPACE, fdt |-> fdt]
    ELSE LET s == fdt_find_add_string(fdt, SubSeq(name, 1, strlen(name) + 1))
             g == fdt_grab_space(s.fdt, 3 * FDT_TAGSIZE + Align4(len),
                                 [tok |-> "FDT_PROP",
                                  name |-> SubSeq(name, 1, strlen(name)),
                                  val |-> SubSeq(val, 1, len)])
         IN IF ~s.ok THEN [ret |-> -FDT_ERR_NOSPACE, fdt |-> fdt]
            ELSE IF ~g.ok THEN [ret |-> -FDT_ERR_NOSPACE, fdt |-> s.fdt]
            ELSE [ret |-> 0, fdt |-> g.fdt]

\* fdt_finish: the terminating token, the strings block moved up against the
\* structure block, and the header of a finished blob.
fdt_finish(fdt, fault) ==
    LET g == fdt_grab_space(fdt, FDT_TAGSIZE, [tok |-> "FDT_END"])
    IN IF fault \/ fdt.magic # "FDT_SW_MAGIC" \/ ~g.ok
       THEN [ret |-> -FDT_ERR_NOSPACE, fdt |-> fdt]
       ELSE [ret |-> 0,
             fdt |-> [g.fdt EXCEPT
                        !.magic = "FDT_MAGIC",
                        !.totalsize = g.fdt.off_dt_struct
                                      + g.fdt.size_dt_struct
                                      + Len(g.fdt.strings)]]

\* fdt_open_into: the blob copied into buf, which it then declares to fill.
fdt_open_into(fdt, buf, bufsize, fault) ==
    IF fault \/ fdt.magic # "FDT_MAGIC" \/ fdt.totalsize > bufsize
    THEN [ret |-> -FDT_ERR_NOSPACE, fdt |-> buf]
    ELSE [ret |-> 0,
          fdt |-> [fdt EXCEPT !.len = buf.len, !.totalsize = bufsize]]

\* fdt_pack: the blocks moved together and the total size cut down to them.
fdt_pack(fdt, fault) ==
    IF fault \/ fdt.magic # "FDT_MAGIC"
    THEN [ret |-> -FDT_ERR_NOSPACE, fdt |-> fdt]
    ELSE [ret |-> 0,
          fdt |-> [fdt EXCEPT !.totalsize = fdt.off_dt_struct
                                            + fdt.size_dt_struct
                                            + Len(fdt.strings)]]

\* ------------------------------------------------------- the encoder calls
\* Every call yields res ("Ok" or the Error variant), ret (the return code
\* of the last libfdt call it made, 0 when it made none) and the buffer.
\* fault is 0, or the position of the libfdt call of the function that fails.
Ok(fdt) == [res |-> "Ok", ret |-> 0, fdt |-> fdt]
Err(e, ret, fdt) == [res |-> e, ret |-> ret, fdt |-> fdt]

\* Mutant: a failure of fdt_finish_reservemap is reported as CreateFDT.
allocate_fdt_one_kind(fdt, fault) ==
    LET c == fdt_create(fdt, FDT_MAX_SIZE, fault = 1)
        m == fdt_finish_reservemap(c.fdt, fault = 2)
    IN IF c.ret # 0 THEN Err("CreateFDT", c.ret, c.fdt)
       ELSE IF m.ret # 0 THEN Err("CreateFDT", m.ret, m.fdt)
       ELSE Ok(m.fdt)

allocate_fdt(fdt, fault) ==
    LET c == fdt_create(fdt, FDT_MAX_SIZE, fault = 1)
        m == fdt_finish_reservemap(c.fdt, fault = 2)
    IN IF c.ret # 0 THEN Err("CreateFDT", c.ret, c.fdt)
       ELSE IF m.ret # 0 THEN Err("FinishFDTReserveMap", m.ret, m.fdt)
       ELSE Ok(m.fdt)

append_begin_node(fdt, name, fault) ==
    LET cstr_name == CString_new(name)
        r == fdt_begin_node(fdt, cstr_name.bytes, fault = 1)
    IN IF ~cstr_name.ok THEN Err("CstringFDTTransform", 0, fdt)
       ELSE IF r.ret # 0 THEN Err("AppendFDTNode", r.ret, r.fdt)
       ELSE Ok(r.fdt)

\* Mutant: the return code of fdt_end_node goes unchecked.
append_end_node_unchecked(fdt, fault) ==
    LET r == fdt_end_node(fdt, fault = 1)
    IN [res |-> "Ok", ret |-> r.ret, fdt |-> r.fdt]

append_end_node(fdt, fault) ==
    LET r == fdt_end_node(fdt, fault = 1)
    IN IF r.ret # 0 THEN Err("AppendFDTNode", r.ret, r.fdt) ELSE Ok(r.fdt)

append_property(fdt, name, val, fault) ==
    LET cstr_name == CString_new(name)
        r == fdt_property(fdt, cstr_name.bytes, val, Len(val), fault = 1)
    IN IF ~cstr_name.ok THEN Err("CstringFDTTransform", 0, fdt)
       ELSE IF r.ret # 0 THEN Err("AppendFDTProperty", r.ret, r.fdt)
       ELSE Ok(r.fdt)

append_property_u32(fdt, name, val, fault) ==
    append_property(fdt, name, to_be32(val), fault)

append_property_u64(fdt, name, val, fault) ==
    append_property(fdt, name, to_be64(val), fault)

\* Mutant: the name is handed to libfdt as it is, cut at its first 0 byte.
append_property_cstring_unchecked(fdt, name, cstr_value, fault) ==
    LET value_bytes == cstr_value
        r == fdt_property(fdt, name \o <<0>>, value_bytes,
                          Len(value_bytes), fault = 1)
    IN IF r.ret # 0 THEN Err("AppendFDTProperty", r.ret, r.fdt)
       ELSE Ok(r.fdt)

\* cstr_value is a CStr: its bytes with the terminating 0.
append_property_cstring(fdt, name, cstr_value, fault) ==
    LET value_bytes == cstr_value
        cstr_name == CString_new(name)
        r == fdt_property(fdt, cstr_name.bytes, value_bytes,
                          Len(value_bytes), fault = 1)
    IN IF ~cstr_name.ok THEN Err("CstringFDTTransform", 0, fdt)
       ELSE IF r.ret # 0 THEN Err("AppendFDTProperty", r.ret, r.fdt)
       ELSE Ok(r.fdt)

append_property_string(fdt, name, value, fault) ==
    LET cstr_value == CString_new(value)
    IN IF ~cstr_value.ok THEN Err("CstringFDTTransform", 0, fdt)
       ELSE append_property_cstring(fdt, name, cstr_value.bytes, fault)

append_property_null(fdt, name, fault) ==
    LET cstr_name == CString_new(name)
        r == fdt_property(fdt, cstr_name.bytes, <<>>, 0, fault = 1)
    IN IF ~cstr_name.ok THEN Err("CstringFDTTransform", 0, fdt)
       ELSE IF r.ret # 0 THEN Err("AppendFDTProperty", r.ret, r.fdt)
       ELSE Ok(r.fdt)

\* Mutant: the blob is opened into the second buffer and never packed.
finish_fdt_unpacked(from_fdt, to_fdt, fault) ==
    LET f == fdt_finish(from_fdt, fault = 1)
        o == fdt_open_into(f.fdt, to_fdt, FDT_MAX_SIZE, fault = 2)
    IN IF f.ret # 0
       THEN [res |-> "FinishFDTReserveMap", ret |-> f.ret,
             fdt |-> f.fdt, to_fdt |-> to_fdt]
       ELSE IF o.ret # 0
       THEN [res |-> "FinishFDTReserveMap", ret |-> o.ret,
             fdt |-> f.fdt, to_fdt |-> o.fdt]
       ELSE [res |-> "Ok", ret |-> 0, fdt |-> f.fdt, to_fdt |-> o.fdt]

\* finish_fdt works on two buffers: it yields both.
finish_fdt(from_fdt, to_fdt, fault) ==
    LET f == fdt_finish(from_fdt, fault = 1)
        o == fdt_open_into(f.fdt, to_fdt, FDT_MAX_SIZE, fault = 2)
        p == fdt_pack(o.fdt, fault = 3)
    IN IF f.ret # 0
       THEN [res |-> "FinishFDTReserveMap", ret |-> f.ret,
             fdt |-> f.fdt, to_fdt |-> to_fdt]
       ELSE IF o.ret # 0
       THEN [res |-> "FinishFDTReserveMap", ret |-> o.ret,
             fdt |-> f.fdt, to_fdt |-> o.fdt]
       ELSE IF p.ret # 0
       THEN [res |-> "FinishFDTReserveMap", ret |-> p.ret,
             fdt |-> f.fdt, to_fdt |-> p.fdt]
       ELSE [res |-> "Ok", ret |-> 0, fdt |-> f.fdt, to_fdt |-> p.fdt]

\* The calls a node function makes are listed as records and run one per
\* step by Exec.
BeginNode(name) == [fn |-> "append_begin_node", name |-> name]
EndNode == [fn |-> "append_end_node"]
Prop(name, val) == [fn |-> "append_property", name |-> name, val |-> val]
PropU32(name, val) ==
    [fn |-> "append_property_u32", name |-> name, val |-> val]
PropU64(name, val) ==
    [fn |-> "append_property_u64", name |-> name, val |-> val]
PropString(name, val) ==
    [fn |-> "append_property_string", name |-> name, val |-> val]
PropCstring(name, val) ==
    [fn |-> "append_property_cstring", name |-> name, val |-> val]
PropNull(name) == [fn |-> "append_property_null", name |-> name]

Exec(c, fdt, fault) ==
    CASE c.fn = "append_begin_node" -> append_begin_node(fdt, c.name, fault)
      [] c.fn = "append_end_node" -> append_end_node(fdt, fault)
      [] c.fn = "append_property" ->
            append_property(fdt, c.name, c.val, fault)
      [] c.fn = "append_property_u32" ->
            append_property_u32(fdt, c.name, c.val, fault)
      [] c.fn = "append_property_u64" ->
            append_property_u64(fdt, c.name, c.val, fault)
      [] c.fn = "append_property_string" ->
            append_property_string(fdt, c.name, c.val, fault)
      [] c.fn = "append_property_cstring" ->
            append_property_cstring(fdt, c.name, c.val, fault)
      [] c.fn = "append_property_null" ->
            append_property_null(fdt, c.name, fault)

\* ------------------------------------------------------ the node functions
\* create_fdt, lines 103-111: the root node and its properties.
root_node ==
    <<BeginNode(s_empty),
      PropString(s_compatible, s_linux_dummy_virt),
      PropU32(s_address_cells, ADDRESS_CELLS),
      PropU32(s_size_cells, SIZE_CELLS),
      PropU32(s_interrupt_parent, GIC_PHANDLE)>>

\* The mask of create_cpu_nodes: 0x7FFFFF.
MPIDR_MASK == <<0, 0, 127, 65535>>

\* Mutant: the CPU node is never closed.
cpu_node_unclosed(vcpu_mpidr, num_cpus, cpu_index) ==
    LET cpu_name == s_cpu_at \o fmt_x(U64FromNat(cpu_index))
    IN <<BeginNode(cpu_name),
         PropString(s_device_type, s_cpu),
         PropString(s_compatible, s_arm_v8)>>
       \o (IF num_cpus > 1 THEN <<PropString(s_enable_method, s_psci)>>
           ELSE <<>>)
       \o <<PropU64(s_reg, U64And(vcpu_mpidr[cpu_index + 1], MPIDR_MASK))>>

\* Mutant: the mask keeps 24 bits (0xFFFFFF).
cpu_node_mask24(vcpu_mpidr, num_cpus, cpu_index) ==
    LET cpu_name == s_cpu_at \o fmt_x(U64FromNat(cpu_index))
    IN <<BeginNode(cpu_name),
         PropString(s_device_type, s_cpu),
         PropString(s_compatible, s_arm_v8)>>
       \o (IF num_cpus > 1 THEN <<PropString(s_enable_method, s_psci)>>
           ELSE <<>>)
       \o <<PropU64(s_reg, U64And(vcpu_mpidr[cpu_index + 1],
                                  <<0, 0, 255, 65535>>)),
            EndNode>>

\* Mutant: enable-method is left out of the first CPU node.
cpu_node_first_without_method(vcpu_mpidr, num_cpus, cpu_index) ==
    LET cpu_name == s_cpu_at \o fmt_x(U64FromNat(cpu_index))
    IN <<BeginNode(cpu_name),
         PropString(s_device_type, s_cpu),
         PropString(s_compatible, s_arm_v8)>>
       \o (IF cpu_index > 0 THEN <<PropString(s_enable_method, s_psci)>>
           ELSE <<>>)
       \o <<PropU64(s_reg, U64And(vcpu_mpidr[cpu_index + 1], MPIDR_MASK)),
            EndNode>>

\* Mutant: the affinity values are read from the end of the list.
cpu_node_reversed(vcpu_mpidr, num_cpus, cpu_index) ==
    LET cpu_name == s_cpu_at \o fmt_x(U64FromNat(cpu_index))
    IN <<BeginNode(cpu_name),
         PropString(s_device_type, s_cpu),
         PropString(s_compatible, s_arm_v8)>>
       \o (IF num_cpus > 1 THEN <<PropString(s_enable_method, s_psci)>>
           ELSE <<>>)
       \o <<PropU64(s_reg, U64And(vcpu_mpidr[num_cpus - cpu_index],
                                  MPIDR_MASK)),
            EndNode>>

\* The body of the loop of create_cpu_nodes.
cpu_node(vcpu_mpidr, num_cpus, cpu_index) ==
    LET cpu_name == s_cpu_at \o fmt_x(U64FromNat(cpu_index))
    IN <<BeginNode(cpu_name),
         PropString(s_device_type, s_cpu),
         PropString(s_compatible, s_arm_v8)>>
       \o (IF num_cpus > 1 THEN <<PropString(s_enable_method, s_psci)>>
           ELSE <<>>)
       \o <<PropU64(s_reg, U64And(vcpu_mpidr[cpu_index + 1], MPIDR_MASK)),
            EndNode>>

RECURSIVE cpu_nodes_from(_, _, _)
cpu_nodes_from(vcpu_mpidr, num_cpus, cpu_index) ==
    IF cpu_index >= num_cpus THEN <<>>
    ELSE cpu_node(vcpu_mpidr, num_cpus, cpu_index)
         \o cpu_nodes_from(vcpu_mpidr, num_cpus, cpu_index + 1)

\* Mutant: #size-cells is appended to cpus behind its CPU nodes.
create_cpu_nodes_late_property(vcpu_mpidr) ==
    LET num_cpus == Len(vcpu_mpidr)
    IN <<BeginNode(s_cpus),
         PropU32(s_address_cells, 2)>>
       \o cpu_nodes_from(vcpu_mpidr, num_cpus, 0)
       \o <<PropU32(s_size_cells, 0), EndNode>>

create_cpu_nodes(vcpu_mpidr) ==
    LET num_cpus == Len(vcpu_mpidr)
    IN <<BeginNode(s_cpus),
         PropU32(s_address_cells, 2),
         PropU32(s_size_cells, 0)>>
       \o cpu_nodes_from(vcpu_mpidr, num_cpus, 0)
       \o <<EndNode>>

\* Mutant: the length is the end address, the region start not subtracted.
create_memory_node_no_sub(guest_end) ==
    LET mem_size == guest_end
        mem_reg_prop == generate_prop64(<<DRAM_MEM_START, mem_size>>)
    IN <<BeginNode(s_memory),
         PropString(s_device_type, s_memory),
         Prop(s_reg, mem_reg_prop),
         EndNode>>

\* guest_end is guest_mem.end_addr().offset().
create_memory_node(guest_end) ==
    LET mem_size == U64Sub(guest_end, DRAM_MEM_START)
        mem_reg_prop == generate_prop64(<<DRAM_MEM_START, mem_size>>)
    IN <<BeginNode(s_memory),
         PropString(s_device_type, s_memory),
         Prop(s_reg, mem_reg_prop),
         EndNode>>

create_chosen_node(cmdline) ==
    <<BeginNode(s_chosen), PropCstring(s_bootargs, cmdline), EndNode>>

create_gic_node(gic_device) ==
    LET gic_reg_prop == generate_prop64(gic_device.device_properties)
        gic_intr == <<GIC_FDT_IRQ_TYPE_PPI, gic_device.fdt_maint_irq,
                      IRQ_TYPE_LEVEL_HI>>
        gic_intr_prop == generate_prop32(gic_intr)
    IN <<BeginNode(s_intc),
         PropString(s_compatible, gic_device.fdt_compatibility),
         PropNull(s_interrupt_controller),
         PropU32(s_interrupt_cells, 3),
         Prop(s_reg, gic_reg_prop),
         PropU32(s_phandle, GIC_PHANDLE),
         PropU32(s_address_cells, 2),
         PropU32(s_size_cells, 2),
         PropNull(s_ranges),
         Prop(s_interrupts, gic_intr_prop),
         EndNode>>

\* Mutant: the clock node takes the phandle of the interrupt controller.
create_clock_node_gic_phandle ==
    <<BeginNode(s_apb_pclk_node),
      PropString(s_compatible, s_fixed_clock),
      PropU32(s_clock_cells, 0),
      PropU32(s_clock_frequency, 24000000),
      PropString(s_clock_output_names, s_clk24mhz),
      PropU32(s_phandle, GIC_PHANDLE),
      EndNode>>

create_clock_node ==
    <<BeginNode(s_apb_pclk_node),
      PropString(s_compatible, s_fixed_clock),
      PropU32(s_clock_cells, 0),
      PropU32(s_clock_frequency, 24000000),
      PropString(s_clock_output_names, s_clk24mhz),
      PropU32(s_phandle, CLOCK_PHANDLE),
      EndNode>>

RECURSIVE timer_cells(_)
timer_cells(irqs) ==
    IF irqs = <<>> THEN <<>>
    ELSE <<GIC_FDT_IRQ_TYPE_PPI, Head(irqs), IRQ_TYPE_LEVEL_HI>>
         \o timer_cells(Tail(irqs))

create_timer_node ==
    LET irqs == <<13, 14, 11, 10>>
        compatible == s_armv8_timer
        timer_reg_cells == timer_cells(irqs)
        timer_reg_prop == generate_prop32(timer_reg_cells)
    IN <<BeginNode(s_timer),
         PropString(s_compatible, compatible),
         PropNull(s_always_on),
         Prop(s_interrupts, timer_reg_prop),
         EndNode>>

create_psci_node ==
    LET compatible == s_psci_0_2
    IN <<BeginNode(s_psci),
         PropString(s_compatible, compatible),
         PropString(s_method, s_hvc),
         EndNode>>

create_virtio_node(dev_info) ==
    LET device_reg_prop == generate_prop64(<<dev_info.addr, dev_info.length>>)
        irq == generate_prop32(<<GIC_FDT_IRQ_TYPE_SPI, dev_info.irq,
                                 IRQ_TYPE_EDGE_RISING>>)
    IN <<BeginNode(s_virtio_mmio_at \o fmt_x(dev_info.addr)),
         PropString(s_compatible, s_virtio_mmio),
         Prop(s_reg, device_reg_prop),
         Prop(s_interrupts, irq),
         PropU32(s_interrupt_parent, GIC_PHANDLE),
         EndNode>>

\* Mutant: the reg of the serial device holds its address only.
create_serial_node_reg_addr_only(dev_info) ==
    LET serial_reg_prop == generate_prop64(<<dev_info.addr>>)
        irq == generate_prop32(<<GIC_FDT_IRQ_TYPE_SPI, dev_info.irq,
                                 IRQ_TYPE_EDGE_RISING>>)
    IN <<BeginNode(s_uart_at \o fmt_x(dev_info.addr)),
         PropString(s_compatible, s_ns16550a),
         Prop(s_reg, serial_reg_prop),
         PropU32(s_clocks, CLOCK_PHANDLE),
         PropString(s_clock_names, s_apb_pclk),
         Prop(s_interrupts, irq),
         EndNode>>

create_serial_node(dev_info) ==
    LET serial_reg_prop == generate_prop64(<<dev_info.addr, dev_info.length>>)
        irq == generate_prop32(<<GIC_FDT_IRQ_TYPE_SPI, dev_info.irq,
                                 IRQ_TYPE_EDGE_RISING>>)
    IN <<BeginNode(s_uart_at \o fmt_x(dev_info.addr)),
         PropString(s_compatible, s_ns16550a),
         Prop(s_reg, serial_reg_prop),
         PropU32(s_clocks, CLOCK_PHANDLE),
         PropString(s_clock_names, s_apb_pclk),
         Prop(s_interrupts, irq),
         EndNode>>

\* Mutant: the interrupt of the RTC is edge-triggered like the others.
create_rtc_node_edge_rising(dev_info) ==
    LET compatible == b_rtc_compatible
        rtc_reg_prop == generate_prop64(<<dev_info.addr, dev_info.length>>)
        irq == generate_prop32(<<GIC_FDT_IRQ_TYPE_SPI, dev_info.irq,
                                 IRQ_TYPE_EDGE_RISING>>)
    IN <<BeginNode(s_rtc_at \o fmt_x(dev_info.addr)),
         Prop(s_compatible, compatible),
         Prop(s_reg, rtc_reg_prop),
         Prop(s_interrupts, irq),
         PropU32(s_clocks, CLOCK_PHANDLE),
         PropString(s_clock_names, s_apb_pclk),
         EndNode>>

create_rtc_node(dev_info) ==
    LET compatible == b_rtc_compatible
        rtc_reg_prop == generate_prop64(<<dev_info.addr, dev_info.length>>)
        irq == generate_prop32(<<GIC_FDT_IRQ_TYPE_SPI, dev_info.irq,
                                 IRQ_TYPE_LEVEL_HI>>)
    IN <<BeginNode(s_rtc_at \o fmt_x(dev_info.addr)),
         Prop(s_compatible, compatible),
         Prop(s_reg, rtc_reg_prop),
         Prop(s_interrupts, irq),
         PropU32(s_clocks, CLOCK_PHANDLE),
         PropString(s_clock_names, s_apb_pclk),
         EndNode>>

\* Vec::sort_by(|a, b| a.addr().cmp(&b.addr())): a stable sort.  x goes
\* behind every element that does not compare greater than it.
RECURSIVE insert_sorted(_, _)
insert_sorted(sorted, x) ==
    IF sorted = <<>> THEN <<x>>
    ELSE IF U64Cmp(Head(sorted).addr, x.addr) = 1 THEN <<x>> \o sorted
    ELSE <<Head(sorted)>> \o insert_sorted(Tail(sorted), x)

\* Mutant: the virtio devices stay in the order the map iterated.
sort_by_addr_unsorted(v) == v

RECURSIVE sort_by_addr(_)
sort_by_addr(v) ==
    IF v = <<>> THEN <<>>
    ELSE insert_sorted(sort_by_addr(SubSeq(v, 1, Len(v) - 1)), v[Len(v)])

\* Mutant: a virtio node is written where the loop meets its device.
RECURSIVE devices_loop_nodes_inline(_)
devices_loop_nodes_inline(entries) ==
    IF entries = <<>> THEN <<>>
    ELSE LET e == Head(entries)
         IN (CASE e.device_type = "RTC" -> create_rtc_node(e.info)
               [] e.device_type = "Serial" -> create_serial_node(e.info)
               [] e.device_type = "Virtio" -> create_virtio_node(e.info))
            \o devices_loop_nodes_inline(Tail(entries))

\* The first loop of create_devices_node over the map's entries, in the
\* order the map iterates (entries): the nodes written in the loop.
RECURSIVE devices_loop_nodes(_)
devices_loop_nodes(entries) ==
    IF entries = <<>> THEN <<>>
    ELSE LET e == Head(entries)
         IN (CASE e.device_type = "RTC" -> create_rtc_node(e.info)
               [] e.device_type = "Serial" -> create_serial_node(e.info)
               [] e.device_type = "Virtio" -> <<>>)
            \o devices_loop_nodes(Tail(entries))

\* ... and the vector of virtio devices it collects.
RECURSIVE devices_loop_virtio(_)
devices_loop_virtio(entries) ==
    IF entries = <<>> THEN <<>>
    ELSE LET e == Head(entries)
         IN (IF e.device_type = "Virtio" THEN <<e.info>> ELSE <<>>)
            \o devices_loop_virtio(Tail(entries))

RECURSIVE virtio_nodes(_)
virtio_nodes(ordered) ==
    IF ordered = <<>> THEN <<>>
    ELSE create_virtio_node(Head(ordered)) \o virtio_nodes(Tail(ordered))

\* Mutant: one virtio node is written per address, not per device.
create_devices_node_per_address(entries) ==
    LET ordered == sort_by_addr(devices_loop_virtio(entries))
        kept == {i \in 1..Len(ordered) :
                    i = 1 \/ ordered[i].addr # ordered[i - 1].addr}
        pick(k) == CHOOSE i \in kept : Cardinality({j \in kept : j <= i}) = k
    IN devices_loop_nodes(entries)
       \o virtio_nodes([k \in 1..Cardinality(kept) |-> ordered[pick(k)]])

create_devices_node(entries) ==
    LET ordered_virtio_device == sort_by_addr(devices_loop_virtio(entries))
    IN devices_loop_nodes(entries) \o virtio_nodes(ordered_virtio_device)

\* ------------------------------------------------------------------ inputs
\* MPIDR values of vCPUs: 0x80000001 and 0xFFFFFFFFFFFFFFFF.
MpidrValues == {<<0, 0, 32768, 1>>, <<65535, 65535, 65535, 65535>>}

\* guest_mem.end_addr(): DRAM_MEM_START + 0x201000 (the memory of the tests,
\* FDT_MAX_SIZE + 0x1000 bytes).
GuestEnds == {<<0, 0, 32800, 4096>>}

\* The kernel command line, a CStr: "console=tty0".
Cmdlines == {s_console_tty0 \o <<0>>}

\* The two GIC generations: compatibility string, register ranges
\* (distributor and CPU interface or redistributor) and maintenance interrupt.
GicDevices ==
    {[fdt_compatibility |-> s_gic_400,
      device_properties |-> <<<<0, 0, 16383, 61440>>, <<0, 0, 0, 4096>>,
                              <<0, 0, 16383, 53248>>, <<0, 0, 0, 8192>>>>,
      fdt_maint_irq |-> 8],
     [fdt_compatibility |-> s_gic_v3,
      device_properties |-> <<<<0, 0, 16383, 0>>, <<0, 0, 1, 0>>,
                              <<0, 0, 16381, 0>>, <<0, 0, 2, 0>>>>,
      fdt_maint_irq |-> 9]}

\* The entries a device map is made of: key (device_type, device_id) and
\* the device's address, interrupt and length.
DeviceEntries ==
    {[device_type |-> "Serial", device_id |-> "serial",
      info |-> [addr |-> <<0, 0, 0, 0>>, irq |-> 1,
                length |-> <<0, 0, 0, 4096>>]],
     [device_type |-> "RTC", device_id |-> "rtc",
      info |-> [addr |-> <<0, 0, 0, 8192>>, irq |-> 3,
                length |-> <<0, 0, 0, 4096>>]],
     [device_type |-> "Virtio", device_id |-> "virtio1",
      info |-> [addr |-> <<0, 0, 0, 8192>>, irq |-> 2,
                length |-> <<0, 0, 0, 4096>>]],
     [device_type |-> "Virtio", device_id |-> "virtio2",
      info |-> [addr |-> <<0, 0, 0, 4096>>, irq |-> 4,
                length |-> <<0, 0, 0, 4096>>]],
     [device_type |-> "Virtio", device_id |-> "virtio3",
      info |-> [addr |-> <<0, 1, 0, 0>>, irq |-> 5,
                length |-> <<0, 0, 0, 4096>>]]}

DeviceMaps == {m \in SUBSET DeviceEntries : Cardinality(m) <= MaxDevices}

\* The orders in which a HashMap may iterate over its entries.
IterationOrders(m) ==
    {o \in [1..Cardinality(m) -> m] :
        \A i, j \in 1..Cardinality(m) : i # j => o[i] # o[j]}

RECURSIVE SeqsUpTo(_, _)
SeqsUpTo(S, n) ==
    IF n = 0 THEN {<<>>}
    ELSE LET shorter == SeqsUpTo(S, n - 1)
         IN shorter \cup {Append(s, x) : s \in shorter, x \in S}

\* ------------------------------------------------------------------- state
VARIABLES
    vcpu_mpidr,    \* create_fdt's arguments
    guest_end,
    cmdline,
    device_info,   \* [some, map]: Option<&HashMap<..>>
    dev_iter,      \* the order in which the map iterates
    gic_device,
    pc,            \* the statement of create_fdt that runs next
    idx,           \* the next call of that statement's node function
    fdt,           \* the working buffer
    fdt_final,     \* the second buffer, Unallocated before line 125
    guest_writes,  \* the byte counts written to guest memory
    result,        \* what create_fdt returned: kind "running", "Ok", "Err"
    ncalls,        \* history: number of encoder calls made
    fail_at,       \* history: ncalls at the first failed call, 0 if none
    last_call      \* history: the last encoder call made

vars == <<vcpu_mpidr, guest_end, cmdline, device_info, dev_iter, gic_device,
          pc, idx, fdt, fdt_final, guest_writes, result, ncalls, fail_at,
          last_call>>

inputs == <<vcpu_mpidr, guest_end, cmdline, device_info, dev_iter, gic_device>>

Running == [kind |-> "running"]

\* The second buffer before it is allocated.
Unallocated ==
    [len |-> 0, magic |-> "unallocated", totalsize |-> 0,
     off_dt_struct |-> 0, size_dt_struct |-> 0,
     struct |-> <<>>, strings |-> <<>>]

Init ==
    /\ vcpu_mpidr \in SeqsUpTo(MpidrValues, MaxCpus) \ {<<>>}
    /\ guest_end \in GuestEnds
    /\ cmdline \in Cmdlines
    /\ device_info \in {[some |-> FALSE, map |-> {}]}
                         \cup {[some |-> TRUE, map |-> m] : m \in DeviceMaps}
    /\ dev_iter \in IterationOrders(device_info.map)
    /\ gic_device \in GicDevices
    /\ pc = "allocate_fdt"
    /\ idx = 1
    /\ fdt = ZeroedVec
    /\ fdt_final = Unallocated
    /\ guest_writes = <<>>
    /\ result = Running
    /\ ncalls = 0
    /\ fail_at = 0
    /\ last_call = [fn |-> "none"]

\* ------------------------------------------------------------- create_fdt
\* Mutant: the clock node is written before the timer node.
NextStage_ClockFirst(stage) ==
    CASE stage = "allocate_fdt" -> "root"
      [] stage = "root" -> "create_cpu_nodes"
      [] stage = "create_cpu_nodes" -> "create_memory_node"
      [] stage = "create_memory_node" -> "create_chosen_node"
      [] stage = "create_chosen_node" -> "create_gic_node"
      [] stage = "create_gic_node" -> "create_clock_node"
      [] stage = "create_clock_node" -> "create_timer_node"
      [] stage = "create_timer_node" -> "create_psci_node"
      [] stage = "create_psci_node" -> "create_devices_node"
      [] stage = "create_devices_node" -> "end_root"
      [] stage = "end_root" -> "finish_fdt"
      [] stage = "finish_fdt" -> "write"
      [] stage = "write" -> "done"

\* The statement that follows each statement of create_fdt.
NextStage(stage) ==
    CASE stage = "allocate_fdt" -> "root"
      [] stage = "root" -> "create_cpu_nodes"
      [] stage = "create_cpu_nodes" -> "create_memory_node"
      [] stage = "create_memory_node" -> "create_chosen_node"
      [] stage = "create_chosen_node" -> "create_gic_node"
      [] stage = "create_gic_node" -> "create_timer_node"
      [] stage = "create_timer_node" -> "create_clock_node"
      [] stage = "create_clock_node" -> "create_psci_node"
      [] stage = "create_psci_node" -> "create_devices_node"
      [] stage = "create_devices_node" -> "end_root"
      [] stage = "end_root" -> "finish_fdt"
      [] stage = "finish_fdt" -> "write"
      [] stage = "write" -> "done"

\* Mutant: a failure of finish_fdt is not returned, the build goes on to
\* write the second buffer.
Outcome_finish_unchecked(stage, call, r, last) ==
    /\ ncalls' = ncalls + 1
    /\ last_call' = call
    /\ fail_at' = IF fail_at = 0 /\ (r.res # "Ok" \/ r.ret # 0)
                  THEN ncalls + 1 ELSE fail_at
    /\ IF r.res = "Ok" \/ stage = "finish_fdt"
       THEN /\ result' = result
            /\ IF last THEN pc' = NextStage(stage) /\ idx' = 1
               ELSE pc' = pc /\ idx' = idx + 1
       ELSE /\ result' = [kind |-> "Err", err |-> r.res]
            /\ pc' = "done"
            /\ idx' = 1

\* What one encoder call leaves behind: r is its outcome, last whether it is
\* the last call of its statement.  An Err is returned at once (the ? of
\* every call).
Outcome(stage, call, r, last) ==
    /\ ncalls' = ncalls + 1
    /\ last_call' = call
    /\ fail_at' = IF fail_at = 0 /\ (r.res # "Ok" \/ r.ret # 0)
                  THEN ncalls + 1 ELSE fail_at
    /\ IF r.res = "Ok"
       THEN /\ result' = result
            /\ IF last THEN pc' = NextStage(stage) /\ idx' = 1
               ELSE pc' = pc /\ idx' = idx + 1
       ELSE /\ result' = [kind |-> "Err", err |-> r.res]
            /\ pc' = "done"
            /\ idx' = 1

\* One call of the node function that statement `stage` runs.
Stage(stage, calls) ==
    /\ pc = stage
    /\ idx <= Len(calls)
    /\ \E fault \in 0..1 :
          LET r == Exec(calls[idx], fdt, fault)
          IN /\ fdt' = r.fdt
             /\ Outcome(stage, calls[idx], r, idx = Len(calls))
    /\ UNCHANGED <<inputs, fdt_final, guest_writes>>

AllocateFdt ==
    /\ pc = "allocate_fdt"
    /\ \E fault \in 0..2 :
          LET r == allocate_fdt(fdt, fault)
          IN /\ fdt' = r.fdt
             /\ Outcome("allocate_fdt", [fn |-> "allocate_fdt"], r, TRUE)
    /\ UNCHANGED <<inputs, fdt_final, guest_writes>>

Root ==
    /\ pc = "root"
    /\ Stage("root", root_node)

CreateCpuNodes ==
    /\ pc = "create_cpu_nodes"
    /\ Stage("create_cpu_nodes", create_cpu_nodes(vcpu_mpidr))

CreateMemoryNode ==
    /\ pc = "create_memory_node"
    /\ Stage("create_memory_node", create_memory_node(guest_end))

CreateChosenNode ==
    /\ pc = "create_chosen_node"
    /\ Stage("create_chosen_node", create_chosen_node(cmdline))

CreateGicNode ==
    /\ pc = "create_gic_node"
    /\ Stage("create_gic_node", create_gic_node(gic_device))

CreateTimerNode ==
    /\ pc = "create_timer_node"
    /\ Stage("create_timer_node", create_timer_node)

CreateClockNode ==
    /\ pc = "create_clock_node"
    /\ Stage("create_clock_node", create_clock_node)

CreatePsciNode ==
    /\ pc = "create_psci_node"
    /\ Stage("create_psci_node", create_psci_node)

\* device_info.map_or(Ok(()), |v| create_devices_node(&mut fdt, v))
CreateDevicesNode ==
    /\ pc = "create_devices_node"
    /\ Stage("create_devices_node", create_devices_node(dev_iter))

\* ... when the map is None or holds no device, nothing is encoded.
NoDevicesNode ==
    /\ pc = "create_devices_node"
    /\ create_devices_node(dev_iter) = <<>>
    /\ pc' = NextStage("create_devices_node")
    /\ UNCHANGED <<inputs, idx, fdt, fdt_final, guest_writes, result, ncalls,
                   fail_at, last_call>>

\* Line 122: the root node is closed.
EndRoot ==
    /\ pc = "end_root"
    /\ Stage("end_root", <<EndNode>>)

\* Lines 125-126: the second buffer is allocated and finish_fdt fills it.
FinishFdt ==
    /\ pc = "finish_fdt"
    /\ \E fault \in 0..3 :
          LET r == finish_fdt(fdt, ZeroedVec, fault)
          IN /\ fdt' = r.fdt
             /\ fdt_final' = r.to_fdt
             /\ Outcome("finish_fdt", [fn |-> "finish_fdt"], r, TRUE)
    /\ UNCHANGED <<inputs, guest_writes>>

\* What guest_mem.write_slice_at_addr may answer: an error, or the number
\* of bytes it wrote.
WriteAnswers(len) ==
    {[ok |-> FALSE, written |-> 0],
     [ok |-> TRUE, written |-> len],
     [ok |-> TRUE, written |-> len - 1]}

\* Mutant: the number of bytes written is not compared with FDT_MAX_SIZE.
WriteFdt_unchecked ==
    /\ pc = "write"
    /\ \E w \in WriteAnswers(fdt_final.len) :
          /\ guest_writes' = IF w.ok THEN Append(guest_writes, w.written)
                             ELSE guest_writes
          /\ result' = IF ~w.ok
                       THEN [kind |-> "Err", err |-> "WriteFDTToMemory"]
                       ELSE [kind |-> "Ok", blob |-> fdt_final]
    /\ pc' = NextStage("write")
    /\ UNCHANGED <<inputs, idx, fdt, fdt_final, ncalls, fail_at, last_call>>

\* Lines 129-136: the blob is written to guest memory and returned.
WriteFdt ==
    /\ pc = "write"
    /\ \E w \in WriteAnswers(fdt_final.len) :
          /\ guest_writes' = IF w.ok THEN Append(guest_writes, w.written)
                             ELSE guest_writes
          /\ result' = IF ~w.ok
                       THEN [kind |-> "Err", err |-> "WriteFDTToMemory"]
                       ELSE IF w.written < FDT_MAX_SIZE
                       THEN [kind |-> "Err",
                             err |-> "IncompleteFDTMemoryWrite"]
                       ELSE [kind |-> "Ok", blob |-> fdt_final]
    /\ pc' = NextStage("write")
    /\ UNCHANGED <<inputs, idx, fdt, fdt_final, ncalls, fail_at, last_call>>

Next ==
    \/ AllocateFdt
    \/ Root
    \/ CreateCpuNodes
    \/ CreateMemoryNode
    \/ CreateChosenNode
    \/ CreateGicNode
    \/ CreateTimerNode
    \/ CreateClockNode
    \/ CreatePsciNode
    \/ CreateDevicesNode
    \/ NoDevicesNode
    \/ EndRoot
    \/ FinishFdt
    \/ WriteFdt

Spec == Init /\ [][Next]_vars

\* ------------------------------------------------------ an encoder session
\* The encoder functions called one after the other on a buffer that
\* allocate_fdt has set up, with names and values of every kind, as a caller
\* in this file may call them; like create_fdt, the session ends at the
\* first Err.
\* Names: "reg", "a" and "a\0b".
EncNames == {s_reg, <<97>>, <<97, 0, 98>>}
\* String values: "psci" and "x\0".
EncStrings == {s_psci, <<120, 0>>}

InitEnc ==
    /\ vcpu_mpidr = <<>>
    /\ guest_end = DRAM_MEM_START
    /\ cmdline = <<0>>
    /\ device_info = [some |-> FALSE, map |-> {}]
    /\ dev_iter = <<>>
    /\ gic_device \in {g \in GicDevices : g.fdt_maint_irq = 9}
    /\ pc = "encoder"
    /\ idx = 1
    /\ fdt = allocate_fdt(ZeroedVec, 0).fdt
    /\ fdt_final = Unallocated
    /\ guest_writes = <<>>
    /\ result = Running
    /\ ncalls = 0
    /\ fail_at = 0
    /\ last_call = [fn |-> "none"]

EncCall(call) ==
    /\ pc = "encoder"
    /\ ncalls < MaxOps
    /\ \E fault \in 0..1 :
          LET r == Exec(call, fdt, fault)
          IN /\ fdt' = r.fdt
             /\ Outcome("encoder", call, r, FALSE)
    /\ UNCHANGED <<inputs, fdt_final, guest_writes>>

EncBeginNode ==
    /\ pc = "encoder"
    /\ \E name \in EncNames : EncCall(BeginNode(name))
EncEndNode ==
    /\ pc = "encoder"
    /\ EncCall(EndNode)
EncProperty ==
    /\ pc = "encoder"
    /\ \E name \in EncNames : EncCall(Prop(name, <<1, 2>>))
EncPropertyU32 ==
    /\ pc = "encoder"
    /\ \E name \in EncNames : EncCall(PropU32(name, 3))
EncPropertyU64 ==
    /\ pc = "encoder"
    /\ \E name \in EncNames : EncCall(PropU64(name, U64FromNat(4)))
EncPropertyString ==
    /\ pc = "encoder"
    /\ \E name \in EncNames, value \in EncStrings :
          EncCall(PropString(name, value))
EncPropertyCstring ==
    /\ pc = "encoder"
    /\ \E name \in EncNames : EncCall(PropCstring(name, s_psci \o <<0>>))
EncPropertyNull ==
    /\ pc = "encoder"
    /\ \E name \in EncNames : EncCall(PropNull(name))

NextEnc ==
    \/ EncBeginNode
    \/ EncEndNode
    \/ EncProperty
    \/ EncPropertyU32
    \/ EncPropertyU64
    \/ EncPropertyString
    \/ EncPropertyCstring
    \/ EncPropertyNull

SpecEnc == InitEnc /\ [][NextEnc]_vars

\* ---------------------------------------------- reading a structure block
IsBeginNode(t) == t.tok = "FDT_BEGIN_NODE"
IsProp(t) == t.tok = "FDT_PROP"
IsEndNode(t) == t.tok = "FDT_END_NODE"

\* The positions of the begin-node tokens of s whose name starts with prefix.
NodesNamed(s, prefix) ==
    {i \in 1..Len(s) : IsBeginNode(s[i]) /\ IsPrefix(prefix, s[i].name)}

\* The names of the nodes of s, in the order they were opened.
NodeNames(s) ==
    LET b == SelectSeq(s, IsBeginNode) IN [i \in 1..Len(b) |-> b[i].name]

\* Begin-node tokens less end-node tokens: the number of open nodes.
Depth(s) ==
    Cardinality({i \in 1..Len(s) : IsBeginNode(s[i])})
    - Cardinality({i \in 1..Len(s) : IsEndNode(s[i])})

\* The position behind the run of property tokens that starts at j.
RECURSIVE RunEnd(_, _)
RunEnd(s, j) ==
    IF j > Len(s) \/ ~IsProp(s[j]) THEN j ELSE RunEnd(s, j + 1)

\* The properties written to the node opened at i before any other token.
NodeProps(s, i) == (i + 1)..(RunEnd(s, i + 1) - 1)
HasProp(s, i, name) == \E j \in NodeProps(s, i) : s[j].name = name
PropVal(s, i, name) ==
    s[CHOOSE j \in NodeProps(s, i) : s[j].name = name].val

\* The node opened at i has all its properties: another token follows them.
PropsDone(s, i) == RunEnd(s, i + 1) <= Len(s)

\* Byte strings of equal length compared as big-endian numbers.
BytesLess(a, b) ==
    \E k \in 1..Len(a) :
        a[k] < b[k] /\ \A j \in 1..(k - 1) : a[j] = b[j]

\* The address cell of a reg property: its first eight bytes.
RegAddr(s, i) == SubSeq(PropVal(s, i, s_reg), 1, 8)

VirtioEntries == {e \in device_info.map : e.device_type = "Virtio"}

\* ------------------------------------------------------------------ claims
\* C1: for every device map whose virtio devices have pairwise distinct
\* addresses, and for every iteration order of the map, the virtio_mmio
\* nodes appear in strictly increasing order of device address.
C1_VirtioAscending ==
    LET s == fdt.struct
        v == {i \in NodesNamed(s, s_virtio_mmio_at) : HasProp(s, i, s_reg)}
    IN (\A d, e \in VirtioEntries : d # e => d.info.addr # e.info.addr)
       => \A i, j \in v : i < j => BytesLess(RegAddr(s, i), RegAddr(s, j))

\* C1 witness: a finished build of a map that iterates over two virtio
\* devices with the higher address first.
C1_Witness ==
    /\ result.kind = "Ok"
    /\ \E i, j \in 1..Len(dev_iter) :
          /\ i < j
          /\ dev_iter[i].device_type = "Virtio"
          /\ dev_iter[j].device_type = "Virtio"
          /\ U64Cmp(dev_iter[i].info.addr, dev_iter[j].info.addr) = 1
    /\ Cardinality(NodesNamed(result.blob.struct, s_virtio_mmio_at)) = 2

\* The nodes every tree starts with, for n vCPUs (n <= 10).
FixedNodes(n) ==
    <<s_empty, s_cpus>> \o [i \in 1..n |-> s_cpu_at \o <<48 + i - 1>>]
    \o <<s_memory, s_chosen, s_intc, s_timer, s_apb_pclk_node, s_psci>>

IsDeviceName(name) ==
    \/ IsPrefix(s_uart_at, name)
    \/ IsPrefix(s_rtc_at, name)
    \/ IsPrefix(s_virtio_mmio_at, name)

\* From the i-th token on, d nodes being open, every node is opened at the
\* depth of its place in the tree: the root at 0, the cpu@i nodes at 2
\* (inside cpus) and every other node at 1.
RECURSIVE NestedAsExpected(_, _, _)
NestedAsExpected(s, i, d) ==
    IF i > Len(s) THEN TRUE
    ELSE IF IsBeginNode(s[i])
    THEN /\ d = (IF s[i].name = s_empty THEN 0
                 ELSE IF IsPrefix(s_cpu_at, s[i].name) THEN 2 ELSE 1)
         /\ NestedAsExpected(s, i + 1, d + 1)
    ELSE IF IsEndNode(s[i]) THEN NestedAsExpected(s, i + 1, d - 1)
    ELSE NestedAsExpected(s, i + 1, d)

\* C2: the nodes are opened in the order root, cpus with its cpu@i children,
\* memory, chosen, intc, timer, apb-pclk, psci, then the device nodes, then
\* the root is closed and finish runs; no node is skipped or repeated, and
\* without a device map the tree holds exactly the fixed nodes.
C2_FixedNodeSequence ==
    LET s == fdt.struct
        names == NodeNames(s)
        fixed == FixedNodes(Len(vcpu_mpidr))
        n == Len(fixed) + Cardinality(device_info.map)
    IN /\ Len(names) <= n
       /\ \A i \in 1..Len(names) :
             IF i <= Len(fixed) THEN names[i] = fixed[i]
             ELSE IsDeviceName(names[i])
       \* the cpu@i nodes are the children of cpus, the others of the root
       /\ NestedAsExpected(s, 1, 0)
       \* finish runs behind the closed root, over the whole tree
       /\ (pc \in {"finish_fdt", "write"} \/ fdt.magic = "FDT_MAGIC") =>
             /\ Len(names) = n
             /\ Depth(s) = 0
       /\ fdt.magic = "FDT_MAGIC" =>
             /\ s[Len(s)].tok = "FDT_END"
             /\ IsEndNode(s[Len(s) - 1])
       /\ (result.kind = "Ok" /\ ~device_info.some) =>
             NodeNames(result.blob.struct) = fixed

\* C2 witness: a finished build of two vCPUs and no device map.
C2_Witness ==
    /\ result.kind = "Ok"
    /\ ~device_info.some
    /\ Len(vcpu_mpidr) = 2
    /\ Len(NodeNames(result.blob.struct)) = 10

\* C3: once an encoder call has failed no later encoder call is made, the
\* build returns an error and no blob; a blob is returned only by a build
\* none of whose calls failed, and it is the complete, packed tree.
C3_FailureAborts ==
    /\ fail_at # 0 =>
          /\ ncalls = fail_at
          /\ result.kind = "Err"
          /\ guest_writes = <<>>
    /\ result.kind = "Err" => DOMAIN result = {"kind", "err"}
    /\ result.kind = "Ok" =>
          /\ fail_at = 0
          /\ result.blob.magic = "FDT_MAGIC"
          /\ result.blob.struct[Len(result.blob.struct)].tok = "FDT_END"
          /\ Depth(result.blob.struct) = 0
          /\ Len(NodeNames(result.blob.struct)) =
                Len(FixedNodes(Len(vcpu_mpidr)))
                + Cardinality(device_info.map)

\* C3 witness: a build that an end-node call in the middle of the tree made
\* fail.
C3_Witness ==
    /\ pc = "done"
    /\ result = [kind |-> "Err", err |-> "AppendFDTNode"]
    /\ last_call.fn = "append_end_node"
    /\ fail_at > 10
    /\ fdt.struct # <<>>

\* C4: end-node operations never outnumber the begin-node operations, and
\* when finish_fdt is called every node that was opened has been closed.
C4_BalancedNodes ==
    /\ Depth(fdt.struct) >= 0
    /\ pc = "finish_fdt" => Depth(fdt.struct) = 0
    /\ fdt.magic = "FDT_MAGIC" => Depth(fdt.struct) = 0
    /\ fdt_final # Unallocated => Depth(fdt_final.struct) = 0

\* C4 witness: finish_fdt is about to be called on a tree with two CPU nodes
\* and a device node.
C4_Witness ==
    /\ pc = "finish_fdt"
    /\ Len(vcpu_mpidr) >= 2
    /\ device_info.map # {}
    /\ Cardinality({i \in 1..Len(fdt.struct) : IsEndNode(fdt.struct[i])}) >= 12

CpuNodes(s) == NodesNamed(s, s_cpu_at)

\* The vCPU the CPU node opened at i stands for: its affinity value.
MpidrOf(s, i) ==
    vcpu_mpidr[Cardinality({j \in CpuNodes(s) : j <= i})]

\* C5: the reg property of every CPU node is the vCPU's affinity value
\* masked to its low 24 bits (the value modulo 2^24).
C5_RegIsLow24Bits ==
    LET s == fdt.struct
    IN \A i \in CpuNodes(s) :
          HasProp(s, i, s_reg) =>
             LET m == MpidrOf(s, i)
             IN PropVal(s, i, s_reg) =
                   <<0, 0, 0, 0, 0, m[3] % 256, m[4] \div 256, m[4] % 256>>

C7_EnableMethod ==
    LET s == fdt.struct
    IN \A i \in CpuNodes(s) :
          PropsDone(s, i) =>
             (HasProp(s, i, s_enable_method) <=> Len(vcpu_mpidr) >= 2)

\* C7 witness: all CPU nodes of a build of two vCPUs are written, each with
\* enable-method.
C7_Witness ==
    /\ pc = "create_memory_node"
    /\ Len(vcpu_mpidr) = 2
    /\ Cardinality(CpuNodes(fdt.struct)) = 2
    /\ \A i \in CpuNodes(fdt.struct) :
          HasProp(fdt.struct, i, s_enable_method)

HasNul(name) == \E i \in 1..Len(name) : name[i] = 0

\* C8: a begin-node or property call whose name holds a 0 byte fails with
\* CstringFDTTransform and leaves the working buffer as it was; no blob
\* comes of it.
C8_NulNameRejected ==
    [][(/\ ncalls' = ncalls + 1
        /\ "name" \in DOMAIN last_call'
        /\ HasNul(last_call'.name))
       => /\ fdt' = fdt
          /\ fdt_final' = Unallocated
          /\ result' = [kind |-> "Err", err |-> "CstringFDTTransform"]]_vars

\* C8 witness: a property call with the name "a\0b" on a buffer that holds
\* tokens already has failed.
C8_Witness ==
    /\ result = [kind |-> "Err", err |-> "CstringFDTTransform"]
    /\ last_call.fn = "append_property_cstring"
    /\ HasNul(last_call.name)
    /\ fdt.struct # <<>>

\* The bytes a token takes in the structure block.
TokenBytes(t) ==
    CASE t.tok = "FDT_BEGIN_NODE" -> 4 + Align4(Len(t.name) + 1)
      [] t.tok = "FDT_PROP" -> 12 + Align4(Len(t.val))
      [] OTHER -> 4

RECURSIVE StructBytes(_)
StructBytes(s) ==
    IF s = <<>> THEN 0 ELSE TokenBytes(Head(s)) + StructBytes(Tail(s))

\* C9 as stated: the returned buffer is as long as the total size its header
\* declares.
C9_LengthIsTotalSize ==
    result.kind = "Ok" => result.blob.len = result.blob.totalsize

\* C9 as amended: the returned buffer keeps the length FDT_MAX_SIZE of the
\* working buffer; the total size its header declares after packing is the
\* size of the blocks (header, reserve map, structure, strings) and is at
\* most that length.
C9_LengthIsWorkingSize ==
    result.kind = "Ok" =>
       /\ result.blob.len = FDT_MAX_SIZE
       /\ result.blob.totalsize =
             56 + StructBytes(result.blob.struct) + Len(result.blob.strings)
       /\ result.blob.totalsize <= result.blob.len

\* C9 witness: a returned buffer that is longer than its header declares.
C9_Witness ==
    /\ result.kind = "Ok"
    /\ result.blob.totalsize < result.blob.len
    /\ device_info.map # {}

\* The calls of a build in which the device map iterates in `order`.
create_fdt_calls(order) ==
    root_node
    \o create_cpu_nodes(vcpu_mpidr)
    \o create_memory_node(guest_end)
    \o create_chosen_node(cmdline)
    \o create_gic_node(gic_device)
    \o create_timer_node
    \o create_clock_node
    \o create_psci_node
    \o (IF device_info.some THEN create_devices_node(order) ELSE <<>>)
    \o <<EndNode>>

\* The buffer after the calls from the k-th on have run without a failure.
RECURSIVE run_calls(_, _, _)
run_calls(calls, k, buf) ==
    IF k > Len(calls) THEN buf
    ELSE LET r == Exec(calls[k], buf, 0)
         IN IF r.res = "Ok" THEN run_calls(calls, k + 1, r.fdt) ELSE r.fdt

\* The blob create_fdt returns when no call fails and the map iterates in
\* `order`.
create_fdt_blob(order) ==
    finish_fdt(run_calls(create_fdt_calls(order), 1,
                         allocate_fdt(ZeroedVec, 0).fdt),
               ZeroedVec, 0).to_fdt

\* C10: with the same inputs two builds yield the same blob, whatever the
\* iteration order of the device map.
C10_Deterministic ==
    result.kind = "Ok" =>
       \A order \in IterationOrders(device_info.map) :
          create_fdt_blob(order) = result.blob

\* C11: when the write to guest memory accepts fewer bytes than FDT_MAX_SIZE
\* the build returns IncompleteFDTMemoryWrite; it returns Ok only when the
\* write accepted at least FDT_MAX_SIZE bytes.
C11_ShortWriteIsError ==
    LET n == Len(guest_writes)
    IN /\ (n > 0 /\ guest_writes[n] < FDT_MAX_SIZE) =>
             result = [kind |-> "Err", err |-> "IncompleteFDTMemoryWrite"]
       /\ result.kind = "Ok" => (n > 0 /\ guest_writes[n] >= FDT_MAX_SIZE)

\* C11 witness: a build whose write accepted one byte less than
\* FDT_MAX_SIZE has returned.
C11_Witness ==
    /\ pc = "done"
    /\ guest_writes = <<FDT_MAX_SIZE - 1>>
    /\ result.kind = "Err"
    /\ fdt_final.magic = "FDT_MAGIC"

\* The kind of step that failed, as the sentence on error kinds names them.
FailedStep ==
    IF fail_at = 0
    THEN (IF guest_writes = <<>> THEN "destination-write"
          ELSE "incomplete-write")
    ELSE CASE last_call.fn = "allocate_fdt" -> "blob-creation"
           [] last_call.fn = "append_begin_node" -> "node-append"
           [] last_call.fn \in {"append_end_node", "finish_fdt"} ->
                 "tree-termination"
           [] OTHER -> "property-append"

\* The error each kind of failing step is reported with, one pair for every
\* failing call of the encoder functions on a buffer with an open node.
ReportedKinds ==
    LET buf == append_begin_node(allocate_fdt(ZeroedVec, 0).fdt,
                                 s_empty, 0).fdt
    IN {<<"blob-creation", allocate_fdt(ZeroedVec, f).res>> : f \in 1..2}
       \cup {<<"node-append", append_begin_node(buf, s_cpus, 1).res>>}
       \cup {<<"property-append", e>> :
                e \in {append_property(buf, s_reg, <<0>>, 1).res,
                       append_property_u32(buf, s_reg, 0, 1).res,
                       append_property_u64(buf, s_reg, <<0, 0, 0, 0>>, 1).res,
                       append_property_string(buf, s_reg, s_cpu, 1).res,
                       append_property_cstring(buf, s_reg, <<0>>, 1).res,
                       append_property_null(buf, s_reg, 1).res}}
       \cup {<<"tree-termination", append_end_node(buf, 1).res>>}
       \cup {<<"tree-termination",
               finish_fdt(append_end_node(buf, 0).fdt, ZeroedVec, f).res>> :
                f \in 1..3}
       \cup {<<"name-encoding",
               append_begin_node(buf, <<97, 0, 98>>, 0).res>>,
             <<"name-encoding",
               append_property(buf, <<97, 0, 98>>, <<>>, 0).res>>}
       \cup {<<"incomplete-write", "IncompleteFDTMemoryWrite">>}

\* C12 as stated: a node-append, a property-append, a tree-termination
\* (end-node or finish/pack), a blob-creation, a name-encoding failure and
\* an incomplete write are each reported with an error kind of their own:
\* the error a failed build returns is returned for no other kind of step.
C12_DistinctKinds ==
    result.kind = "Err" =>
       \A p \in ReportedKinds : p[2] = result.err => p[1] = FailedStep

\* C12 as amended: the error kind is that of the failing call.  fdt_create
\* is reported as CreateFDT; fdt_finish_reservemap (in allocate_fdt),
\* fdt_finish, fdt_open_into and fdt_pack as FinishFDTReserveMap;
\* fdt_begin_node and fdt_end_node both as AppendFDTNode; fdt_property as
\* AppendFDTProperty; a name with a 0 byte as CstringFDTTransform; a failed
\* write as WriteFDTToMemory and a short one as IncompleteFDTMemoryWrite.
C12_KindOfFailingCall ==
    result.kind = "Err" =>
       /\ \A p \in ReportedKinds :
             p[1] = "name-encoding" => p[2] = "CstringFDTTransform"
       /\ result.err =
          (IF fail_at = 0
           THEN (IF guest_writes = <<>> THEN "WriteFDTToMemory"
                 ELSE "IncompleteFDTMemoryWrite")
           ELSE CASE last_call.fn = "allocate_fdt" ->
                       (IF fdt.magic = "FDT_SW_MAGIC"
                        THEN "FinishFDTReserveMap" ELSE "CreateFDT")
                  [] last_call.fn = "finish_fdt" -> "FinishFDTReserveMap"
                  [] last_call.fn \in {"append_begin_node",
                                       "append_end_node"} -> "AppendFDTNode"
                  [] OTHER -> "AppendFDTProperty")

\* C12 witness: allocate_fdt has failed in fdt_finish_reservemap, with the
\* error kind that finish_fdt reports too.
C12_Witness ==
    /\ pc = "done"
    /\ last_call.fn = "allocate_fdt"
    /\ fdt.magic = "FDT_SW_MAGIC"
    /\ result = [kind |-> "Err", err |-> "FinishFDTReserveMap"]

\* C13: the blob is written to guest memory at most once, and only behind
\* the closed root and a finish_fdt that succeeded; a build one of whose
\* encoder calls failed writes nothing.
C13_WriteOnceAfterFinish ==
    /\ Len(guest_writes) <= 1
    /\ (pc = "write" \/ guest_writes # <<>>) =>
          /\ fail_at = 0
          /\ fdt.magic = "FDT_MAGIC"
          /\ Depth(fdt.struct) = 0
          /\ fdt_final.magic = "FDT_MAGIC"
          /\ fdt_final.struct = fdt.struct
    /\ guest_writes # <<>> => pc = "done"
    /\ fail_at # 0 => guest_writes = <<>>

\* C13 witness: a build has written its blob and returned it.
C13_Witness ==
    /\ pc = "done"
    /\ Len(guest_writes) = 1
    /\ result.kind = "Ok"
    /\ result.blob = fdt_final

\* The device nodes that are no virtio nodes: uart@ and rtc@.
OtherDeviceNodes(s) == NodesNamed(s, s_uart_at) \cup NodesNamed(s, s_rtc_at)

\* C14: for every device map and every iteration order, every virtio_mmio
\* node comes behind every serial and every RTC node.
C14_VirtioAfterOthers ==
    LET s == fdt.struct
    IN \A i \in NodesNamed(s, s_virtio_mmio_at) :
          \A j \in OtherDeviceNodes(s) : j < i

\* C14 witness: a finished build of a map that iterated over a virtio device
\* before a serial or RTC device.
C14_Witness ==
    /\ result.kind = "Ok"
    /\ Len(dev_iter) = 2
    /\ dev_iter[1].device_type = "Virtio"
    /\ dev_iter[2].device_type \in {"Serial", "RTC"}
    /\ NodesNamed(result.blob.struct, s_virtio_mmio_at) # {}
    /\ OtherDeviceNodes(result.blob.struct) # {}

\* A 32-bit cell of a small number, and an interrupt specifier of three.
Cell(n) == <<0, 0, 0, n>>
Triple(type, number, trigger) == Cell(type) \o Cell(number) \o Cell(trigger)

\* The eight bytes of a 64-bit value, most significant first.
U64Bytes(v) ==
    <<v[1] \div 256, v[1] % 256, v[2] \div 256, v[2] % 256,
      v[3] \div 256, v[3] % 256, v[4] \div 256, v[4] % 256>>

\* The devices of the map of the given kind whose address is that of the
\* reg property of the node opened at i.
DevicesAt(s, i, kind) ==
    {e \in device_info.map :
        /\ e.device_type = kind
        /\ HasProp(s, i, s_reg)
        /\ U64Bytes(e.info.addr) = RegAddr(s, i)}

\* C15: every interrupts property is a sequence of three-cell specifiers
\* (type, number, trigger), as #interrupt-cells = 3 of the controller asks:
\* the maintenance interrupt and the timer interrupts 13, 14, 11, 10 are PPI
\* and level-high, the interrupt of a serial or virtio device SPI and
\* edge-rising, that of an RTC SPI and level-high, with the device's irq.
C15_InterruptTriples ==
    LET s == fdt.struct
        PPI == GIC_FDT_IRQ_TYPE_PPI
        SPI == GIC_FDT_IRQ_TYPE_SPI
    IN \A i \in 1..Len(s) :
          (IsBeginNode(s[i]) /\ HasProp(s, i, s_interrupts)) =>
             LET v == PropVal(s, i, s_interrupts)
                 name == s[i].name
             IN /\ Len(v) % 12 = 0
                /\ CASE name = s_intc ->
                          /\ v = Triple(PPI, gic_device.fdt_maint_irq,
                                        IRQ_TYPE_LEVEL_HI)
                          /\ PropVal(s, i, s_interrupt_cells) = Cell(3)
                     [] name = s_timer ->
                          v = Triple(PPI, 13, IRQ_TYPE_LEVEL_HI)
                              \o Triple(PPI, 14, IRQ_TYPE_LEVEL_HI)
                              \o Triple(PPI, 11, IRQ_TYPE_LEVEL_HI)
                              \o Triple(PPI, 10, IRQ_TYPE_LEVEL_HI)
                     [] IsPrefix(s_uart_at, name) ->
                          \E e \in DevicesAt(s, i, "Serial") :
                             v = Triple(SPI, e.info.irq, IRQ_TYPE_EDGE_RISING)
                     [] IsPrefix(s_virtio_mmio_at, name) ->
                          \E e \in DevicesAt(s, i, "Virtio") :
                             v = Triple(SPI, e.info.irq, IRQ_TYPE_EDGE_RISING)
                     [] IsPrefix(s_rtc_at, name) ->
                          \E e \in DevicesAt(s, i, "RTC") :
                             v = Triple(SPI, e.info.irq, IRQ_TYPE_LEVEL_HI)
                     [] OTHER -> FALSE

\* C15 witness: a finished tree with the interrupts of the controller, the
\* timer, an RTC and a virtio device.
C15_Witness ==
    /\ result.kind = "Ok"
    /\ \E i \in NodesNamed(result.blob.struct, s_rtc_at) :
          HasProp(result.blob.struct, i, s_interrupts)
    /\ \E i \in NodesNamed(result.blob.struct, s_virtio_mmio_at) :
          HasProp(result.blob.struct, i, s_interrupts)
    /\ \E i \in NodesNamed(result.blob.struct, s_timer) :
          Len(PropVal(result.blob.struct, i, s_interrupts)) = 48

\* The nodes of s that carry the property `name`.
NodesWith(s, name) ==
    {i \in 1..Len(s) : IsBeginNode(s[i]) /\ HasProp(s, i, name)}

\* C16: in a finished tree exactly two nodes carry a phandle, intc with 1
\* and apb-pclk with 2; every interrupt-parent (of the root and the virtio
\* nodes) is the phandle of intc, every clocks (of the serial and RTC
\* nodes) that of apb-pclk, and apb-pclk comes before every node that
\* refers to it.
C16_Phandles ==
    result.kind = "Ok" =>
       LET s == result.blob.struct
           ph == NodesWith(s, s_phandle)
       IN /\ Cardinality(ph) = 2
          /\ \E g, c \in ph :
                /\ s[g].name = s_intc
                /\ s[c].name = s_apb_pclk_node
                /\ PropVal(s, g, s_phandle) = Cell(1)
                /\ PropVal(s, c, s_phandle) = Cell(2)
                /\ PropVal(s, g, s_phandle) # PropVal(s, c, s_phandle)
                /\ \A i \in NodesWith(s, s_interrupt_parent) :
                      PropVal(s, i, s_interrupt_parent)
                         = PropVal(s, g, s_phandle)
                /\ \A i \in NodesWith(s, s_clocks) :
                      /\ PropVal(s, i, s_clocks) = PropVal(s, c, s_phandle)
                      /\ c < i
          /\ NodesWith(s, s_interrupt_parent) =
                {1} \cup NodesNamed(s, s_virtio_mmio_at)
          /\ NodesWith(s, s_clocks) = OtherDeviceNodes(s)

\* C16 witness: a finished tree with a serial node that refers to the clock
\* and a virtio node that refers to the controller.
C16_Witness ==
    /\ result.kind = "Ok"
    /\ NodesNamed(result.blob.struct, s_uart_at) # {}
    /\ NodesNamed(result.blob.struct, s_virtio_mmio_at) # {}
    /\ Cardinality(NodesWith(result.blob.struct, s_phandle)) = 2

\* ------------------------------------------- create_memory_node on its own
\* End addresses of guest memory at or above DRAM_MEM_START, with limbs that
\* make the subtraction borrow or not.
MemEnds ==
    {e \in {<<a, b, c, d>> : a \in {0, 65535}, b \in {0, 1, 65535},
                              c \in {0, 32768, 32800, 65535},
                              d \in {0, 1, 4096, 65535}} :
        U64Cmp(e, DRAM_MEM_START) >= 0}

\* create_fdt at line 113: the root and the CPU nodes of one vCPU are
\* written, create_memory_node runs next.
InitMem ==
    /\ vcpu_mpidr = <<<<0, 0, 32768, 1>>>>
    /\ guest_end \in MemEnds
    /\ cmdline \in Cmdlines
    /\ device_info = [some |-> FALSE, map |-> {}]
    /\ dev_iter = <<>>
    /\ gic_device \in GicDevices
    /\ pc = "create_memory_node"
    /\ idx = 1
    /\ fdt = run_calls(root_node \o create_cpu_nodes(vcpu_mpidr), 1,
                       allocate_fdt(ZeroedVec, 0).fdt)
    /\ fdt_final = Unallocated
    /\ guest_writes = <<>>
    /\ result = Running
    /\ ncalls = 1 + Len(root_node \o create_cpu_nodes(vcpu_mpidr))
    /\ fail_at = 0
    /\ last_call = EndNode

NextMem == CreateMemoryNode

SpecMem == InitMem /\ [][NextMem]_vars

\* The 64-bit value of eight bytes, as limbs, and the sum of two 64-bit
\* values with its carry in front.
LimbsOf(b) ==
    <<b[1] * 256 + b[2], b[3] * 256 + b[4],
      b[5] * 256 + b[6], b[7] * 256 + b[8]>>
AddWide(a, b) ==
    LET s4 == a[4] + b[4]
        s3 == a[3] + b[3] + s4 \div 65536
        s2 == a[2] + b[2] + s3 \div 65536
        s1 == a[1] + b[1] + s2 \div 65536
    IN <<s1 \div 65536, s1 % 65536, s2 % 65536, s3 % 65536, s4 % 65536>>

\* C17: for a guest memory that ends at or above DRAM_MEM_START the reg of
\* the memory node is the pair of 64-bit cells (DRAM_MEM_START, end -
\* DRAM_MEM_START): start plus length is the end address, without a wrap.
C17_MemoryReg ==
    LET s == fdt.struct
    IN ~BytesLess(U64Bytes(guest_end), U64Bytes(DRAM_MEM_START)) =>
          \A i \in NodesNamed(s, s_memory) :
             HasProp(s, i, s_reg) =>
                LET v == PropVal(s, i, s_reg)
                IN /\ Len(v) = 16
                   /\ LimbsOf(SubSeq(v, 1, 8)) = DRAM_MEM_START
                   /\ AddWide(DRAM_MEM_START, LimbsOf(SubSeq(v, 9, 16)))
                         = <<0>> \o guest_end

\* C17 witness: the memory node of a guest that ends at 0x1_0000_0000 is
\* written: the subtraction borrows from the upper half.
C17_Witness ==
    /\ pc = "create_chosen_node"
    /\ guest_end = <<0, 1, 0, 0>>
    /\ \E i \in NodesNamed(fdt.struct, s_memory) :
          PropVal(fdt.struct, i, s_reg) =
             <<0, 0, 0, 0, 128, 0, 0, 0, 0, 0, 0, 0, 128, 0, 0, 0>>

\* The node that encloses position i: the last node opened before i that is
\* still open there, 0 when there is none.  j runs backwards from i - 1 and
\* d counts the nodes closed on the way.
RECURSIVE Enclosing(_, _, _)
Enclosing(s, j, d) ==
    IF j = 0 THEN 0
    ELSE IF IsEndNode(s[j]) THEN Enclosing(s, j - 1, d + 1)
    ELSE IF IsBeginNode(s[j])
    THEN (IF d = 0 THEN j ELSE Enclosing(s, j - 1, d - 1))
    ELSE Enclosing(s, j - 1, d)
ParentOf(s, i) == Enclosing(s, i - 1, 0)

\* The digit of an index below 16 in lower-case hexadecimal.
HexChar(k) == IF k < 10 THEN 48 + k ELSE 87 + k

\* C18: for a list of n affinity values the cpus node holds exactly n CPU
\* nodes, in the order of the list, the i-th named by the index i and
\* carrying the reg of the i-th value (its bits 0 to 22 are those of the
\* i-th value, which tells the values of a list apart).
C18_CpuNodesMatchList ==
    LET s == fdt.struct
        cpus == CpuNodes(s)
        n == Len(vcpu_mpidr)
    IN /\ Cardinality(cpus) <= n
       /\ \A i \in cpus :
             LET k == Cardinality({j \in cpus : j <= i})
                 m == vcpu_mpidr[k]
             IN /\ s[i].name = s_cpu_at \o <<HexChar(k - 1)>>
                /\ ParentOf(s, i) # 0
                /\ s[ParentOf(s, i)].name = s_cpus
                /\ HasProp(s, i, s_reg) =>
                      LET v == PropVal(s, i, s_reg)
                      IN /\ Len(v) = 8
                         /\ SubSeq(v, 1, 5) = <<0, 0, 0, 0, 0>>
                         /\ v[6] % 128 = m[3] % 128
                         /\ v[7] * 256 + v[8] = m[4]
       /\ (pc = "create_memory_node" \/ NodesNamed(s, s_memory) # {}) =>
             /\ Cardinality(cpus) = n
             /\ \A i \in cpus : HasProp(s, i, s_reg)

\* C18 witness: the CPU nodes of two vCPUs with different affinity values,
\* the second value first in the list, are written.
C18_Witness ==
    /\ pc = "create_memory_node"
    /\ vcpu_mpidr = <<<<65535, 65535, 65535, 65535>>, <<0, 0, 32768, 1>>>>
    /\ NodeNames(fdt.struct) =
          <<s_empty, s_cpus, s_cpu_at \o <<48>>, s_cpu_at \o <<49>>>>

\* The step appends one token to the structure block of the working buffer
\* (the block never changes in another way).
Appends(t) == fdt'.struct = Append(fdt.struct, t)

\* C19: every property is appended behind the begin-node of its node or
\* behind another property of it (its node is open and has no child yet),
\* never behind the end of a child node and never as the first token.
C19_PropertiesBeforeChildren ==
    [][fdt'.struct # fdt.struct =>
          LET s == fdt'.struct
              n == Len(s)
          IN /\ n > 0
             /\ Appends(s[n])
             /\ IsProp(s[n]) =>
                   /\ n > 1
                   /\ IsBeginNode(s[n - 1]) \/ IsProp(s[n - 1])]_vars

\* C19 witness: the root is about to be closed behind the children of cpus
\* and a device node, all with properties.
C19_Witness ==
    /\ pc = "end_root"
    /\ Len(vcpu_mpidr) = 2
    /\ device_info.map # {}
    /\ Cardinality({j \in 1..Len(fdt.struct) : IsProp(fdt.struct[j])}) >= 40

\* The number a property of one cell holds (below 65536).
CellNum(v) == v[3] * 256 + v[4]

\* C20: the reg of a CPU, memory, serial, RTC and virtio node has as many
\* 32-bit cells as #address-cells plus #size-cells of its parent declare:
\* 2 under cpus (2 and 0) and 4 under the root (2 and 2).  Stated of the
\* step that appends the reg: i is the node it goes to, p the parent of i.
C20_RegCellCount ==
    [][fdt'.struct # fdt.struct =>
          LET s == fdt'.struct
              n == Len(s)
              i == ParentOf(s, n)
              p == ParentOf(s, i)
              cells == CellNum(PropVal(s, p, s_address_cells))
                       + CellNum(PropVal(s, p, s_size_cells))
          IN /\ n > 0
             /\ Appends(s[n])
             /\ (/\ IsProp(s[n])
                 /\ s[n].name = s_reg
                 /\ i # 0
                 /\ \/ IsPrefix(s_cpu_at, s[i].name)
                    \/ s[i].name = s_memory
                    \/ IsDeviceName(s[i].name)) =>
                   /\ p # 0
                   /\ HasProp(s, p, s_address_cells)
                   /\ HasProp(s, p, s_size_cells)
                   /\ Len(s[n].val) = 4 * cells
                   /\ cells = (IF IsPrefix(s_cpu_at, s[i].name) THEN 2
                               ELSE 4)
                   /\ s[p].name = (IF IsPrefix(s_cpu_at, s[i].name)
                                   THEN s_cpus ELSE s_empty)]_vars

\* C20 witness: a finished tree with the reg of a CPU node, the memory node
\* and a serial node.
C20_Witness ==
    /\ result.kind = "Ok"
    /\ \E i \in NodesNamed(result.blob.struct, s_uart_at) :
          Len(PropVal(result.blob.struct, i, s_reg)) = 16
    /\ \E i \in CpuNodes(result.blob.struct) :
          Len(PropVal(result.blob.struct, i, s_reg)) = 8


\* ------------------------------------------- create_devices_node on its own
\* Device entries for create_devices_node alone: those of DeviceEntries, a
\* serial and a virtio device at the address another device of their kind
\* has (the keys differ in the device id), and an RTC at 0xabcdf000.
DeviceEntriesWide ==
    DeviceEntries
    \cup {[device_type |-> "Serial", device_id |-> "serial2",
           info |-> [addr |-> <<0, 0, 0, 0>>, irq |-> 6,
                     length |-> <<0, 0, 0, 4096>>]],
          [device_type |-> "RTC", device_id |-> "rtc2",
           info |-> [addr |-> <<0, 0, 43981, 61440>>, irq |-> 7,
                     length |-> <<0, 0, 0, 4096>>]],
          [device_type |-> "Virtio", device_id |-> "virtio4",
           info |-> [addr |-> <<0, 0, 0, 4096>>, irq |-> 8,
                     length |-> <<0, 0, 0, 4096>>]]}

DeviceMapsWide ==
    {m \in SUBSET DeviceEntriesWide : Cardinality(m) <= MaxDevices}

\* The calls create_fdt makes at lines 103-118, before the device nodes.
nodes_before_devices ==
    root_node \o create_cpu_nodes(vcpu_mpidr) \o create_memory_node(guest_end)
    \o create_chosen_node(cmdline) \o create_gic_node(gic_device)
    \o create_timer_node \o create_clock_node \o create_psci_node

\* create_fdt at line 119: the nodes before the devices are written for one
\* vCPU, create_devices_node runs next.
InitDev ==
    /\ vcpu_mpidr = <<<<0, 0, 32768, 1>>>>
    /\ guest_end \in GuestEnds
    /\ cmdline \in Cmdlines
    /\ device_info \in {[some |-> FALSE, map |-> {}]}
                         \cup {[some |-> TRUE, map |-> m] :
                                  m \in DeviceMapsWide}
    /\ dev_iter \in IterationOrders(device_info.map)
    /\ gic_device = CHOOSE g \in GicDevices : g.fdt_maint_irq = 9
    /\ pc = "create_devices_node"
    /\ idx = 1
    /\ fdt = run_calls(nodes_before_devices, 1,
                       allocate_fdt(ZeroedVec, 0).fdt)
    /\ fdt_final = Unallocated
    /\ guest_writes = <<>>
    /\ result = Running
    /\ ncalls = 1 + Len(nodes_before_devices)
    /\ fail_at = 0
    /\ last_call = EndNode

NextDev ==
    \/ CreateDevicesNode
    \/ NoDevicesNode

SpecDev == InitDev /\ [][NextDev]_vars

\* The value of a lower-case hexadecimal digit, 16 for any other byte.
HexVal(c) ==
    IF c \in 48..57 THEN c - 48
    ELSE IF c \in 97..102 THEN c - 87
    ELSE 16

\* The bytes digits are the hexadecimal notation of the 64-bit value v (four
\* limbs), without leading zeros: read from the text back to the value.
IsHexOf(digits, v) ==
    LET n == Len(digits)
        nib(i) == IF i <= 16 - n THEN 0 ELSE HexVal(digits[i - (16 - n)])
    IN /\ n \in 1..16
       /\ \A i \in 1..n : HexVal(digits[i]) < 16
       /\ n > 1 => digits[1] # 48
       /\ \A k \in 1..4 :
             v[k] = nib(4 * k - 3) * 4096 + nib(4 * k - 2) * 256
                    + nib(4 * k - 1) * 16 + nib(4 * k)

\* The node name prefix of a device kind.
KindPrefix(kind) ==
    CASE kind = "Serial" -> s_uart_at
      [] kind = "RTC" -> s_rtc_at
      [] kind = "Virtio" -> s_virtio_mmio_at

\* name is the node name of the map entry e: the prefix of its kind and its
\* address in hexadecimal.
NamesEntry(name, e) ==
    LET p == KindPrefix(e.device_type)
    IN /\ IsPrefix(p, name)
       /\ IsHexOf(SubSeq(name, Len(p) + 1, Len(name)), e.info.addr)

\* The device nodes of s, and the child nodes of its root.
DeviceNodes(s) ==
    {i \in 1..Len(s) : IsBeginNode(s[i]) /\ IsDeviceName(s[i].name)}
RootChildren(s) ==
    {i \in 2..Len(s) : IsBeginNode(s[i]) /\ ParentOf(s, i) = 1}

\* Devices of the same kind have pairwise distinct addresses.
DistinctAddresses ==
    \A d, e \in device_info.map :
        (d # e /\ d.device_type = e.device_type) => d.info.addr # e.info.addr

\* C21: for every device map and iteration order, every device node is a
\* child of the root named as an entry of the map is (uart@, rtc@ or
\* virtio_mmio@ by the entry's kind, then its address in hexadecimal), no
\* name is written more often than entries have it, and when
\* create_devices_node has returned Ok every entry has its node, each name
\* is written as often as entries have it, and there are as many device
\* nodes as entries; when devices of the same kind have pairwise distinct
\* addresses, the child nodes of the root have pairwise distinct names.
C21_OneNodePerEntry ==
    LET s == fdt.struct
        dev == DeviceNodes(s)
        map == device_info.map
        finished == pc = "end_root"
    IN /\ Cardinality(dev) <= Cardinality(map)
       /\ \A i \in dev :
             LET same == {j \in dev : s[j].name = s[i].name}
                 named == {e \in map : NamesEntry(s[i].name, e)}
             IN /\ ParentOf(s, i) = 1
                /\ named # {}
                /\ Cardinality(same) <= Cardinality(named)
                /\ finished => Cardinality(same) = Cardinality(named)
       /\ finished =>
             /\ Cardinality(dev) = Cardinality(map)
             /\ \A e \in map : \E i \in dev : NamesEntry(s[i].name, e)
       /\ DistinctAddresses =>
             \A i, j \in RootChildren(s) : i # j => s[i].name # s[j].name

\* C21 witness: create_devices_node has returned Ok for a map of an RTC and
\* a virtio device at the same address, and the two nodes are children of
\* the root.
C21_Witness ==
    /\ pc = "end_root"
    /\ fail_at = 0
    /\ Cardinality(device_info.map) = 2
    /\ \E d, e \in device_info.map :
          /\ d.device_type = "RTC"
          /\ e.device_type = "Virtio"
          /\ d.info.addr = e.info.addr
    /\ Cardinality(DeviceNodes(fdt.struct)) = 2
    /\ DeviceNodes(fdt.struct) \subseteq RootChildren(fdt.struct)
TypeOK ==
    /\ pc \in {"allocate_fdt", "root", "create_cpu_nodes",
               "create_memory_node", "create_chosen_node", "create_gic_node",
               "create_timer_node", "create_clock_node", "create_psci_node",
               "create_devices_node", "end_root", "finish_fdt", "write",
               "done", "encoder"}
    /\ result.kind \in {"running", "Ok", "Err"}
    /\ (result.kind # "running") <=> (pc = "done")
====
